---------------------------- MODULE Spec2Model ----------------------------
(***************************************************************************)
(* Order fulfilment and inventory ledger of the e-commerce back office.    *)
(*                                                                         *)
(* The model follows the request handlers of the product controller        *)
(* (adjustStock), of the order controller (createOrder, updateOrderStatus, *)
(* deleteOrder, getOrders, getOrderById), of the transaction controller    *)
(* and of the auth controller.  A handler is cut into one action per       *)
(* awaited storage call, so that concurrent requests interleave exactly    *)
(* where the event loop lets them.                                         *)
(*                                                                         *)
(* A Product document is addressed through two families of fields:         *)
(*   quantity, low_stock_quantity, stock_status   (models/Product.ts,      *)
(*                                                 product controller)     *)
(*   status, price, stockQuantity, soldQuantity   (order controller,       *)
(*                                                 seed data of server.ts) *)
(* The order controller never reads or writes `quantity`; the product      *)
(* controller never reads or writes `stockQuantity`.                       *)
(***************************************************************************)
EXTENDS Integers, Sequences, FiniteSets, TLC

VARIABLES
    products,       \* Product collection: id -> document
    movements,      \* InventoryMovement collection, in insertion order
    adj,            \* adjustStock requests in flight: slot -> locals
    orders,         \* Order collection: id -> document
    transactions,   \* Transaction collection, in insertion order
    notifications,  \* Notification collection, in insertion order
    cre,            \* createOrder requests in flight: slot -> locals
    upd,            \* number of updateOrderStatus / deleteOrder calls served
    initial,        \* history: the Product collection at start
    ups,            \* updateOrderStatus requests in flight: slot -> locals
    pup,            \* updateProduct requests in flight: slot -> locals
    tup,            \* updateTransaction requests in flight: slot -> locals
    users,          \* User collection: id -> document
    now,            \* the clock, in seconds
    ses,            \* refresh requests in flight: slot -> locals
    issued,         \* history: refresh tokens handed out in responses
    spent,          \* history: refresh tokens used for a refresh or
                    \* issued before a logout of their user
    resp            \* body of the last response to a read of orders

\* the state of the transaction, auth and order-reading handlers
accessVars == <<tup, users, now, ses, issued, spent, resp>>

vars == <<products, movements, adj, orders, transactions, notifications,
          cre, upd, initial, ups, pup, accessVars>>

---------------------------------------------------------------------------
(* Bounds of the model                                                     *)

MaxQty == 2         \* initial quantity / stockQuantity of a product: 0..MaxQty
MaxLow == 2         \* initial low_stock_quantity: 0..MaxLow
MaxChange == 2      \* adjustStock change: -MaxChange..MaxChange
MaxOrderQty == 2    \* quantity of an order line: 1..MaxOrderQty
MaxUpdates == 3     \* updateOrderStatus / deleteOrder calls served in a run

AdjustReqs == {"a1", "a2"}      \* adjustStock request slots
CreateReqs == {"c1", "c2"}      \* createOrder request slots; a slot's name is
                                \* the _id of the order it creates
MissingId == "none"             \* a product id that resolves to no document
NoValue == "undefined"

\* before the first read of orders
NoResponse == [ caller |-> NoValue, status |-> NoValue, orders |-> {} ]

\* no user, no token, no request of the transaction, auth or reading handlers
AccessIdle ==
    /\ tup = <<>>
    /\ users = <<>>
    /\ now = 0
    /\ ses = <<>>
    /\ issued = {}
    /\ spent = {}
    /\ resp = NoResponse

Abs(n) == IF n < 0 THEN -n ELSE n

---------------------------------------------------------------------------
(* utils/generators: calculateStockStatus                                  *)

calculateStockStatus(quantity, lowStockQuantity) ==
    IF quantity = 0 THEN "out_of_stock"
    ELSE IF quantity <= lowStockQuantity THEN "low_stock"
    ELSE "in_stock"

---------------------------------------------------------------------------
(* Product documents                                                       *)

\* price and name a product is first stored with
Price(pid) == IF pid = "p1" THEN 1 ELSE 2
Name(pid) == pid

ProductDoc(pid, q, low, st, sq) ==
    [ name               |-> Name(pid),
      price              |-> Price(pid),
      quantity           |-> q,
      low_stock_quantity |-> low,
      stock_status       |-> calculateStockStatus(q, low),
      status             |-> st,
      stockQuantity      |-> sq,
      soldQuantity       |-> 0 ]

---------------------------------------------------------------------------
(* product.controller: adjustStock                                         *)

MovementTypes == {"in", "out", "adjustment"}
Changes == (-MaxChange)..MaxChange

AdjIdle ==
    [ pc |-> "idle", productId |-> MissingId, change |-> 0, type |-> "in",
      previousQuantity |-> 0, lowStock |-> 0, updatedQuantity |-> 0,
      error |-> NoValue ]

\* lines 411-425: the movement type the handler settles on
MovementType(type, changeAmount) ==
    IF type = "in" \/ changeAmount > 0 THEN "in"
    ELSE IF type = "out" \/ changeAmount < 0 THEN "out"
    ELSE "adjustment"

\* lines 411-425: the quantity the handler expects to store
NewQuantity(type, changeAmount, previousQuantity) ==
    IF type = "in" \/ changeAmount > 0
        THEN previousQuantity + Abs(changeAmount)
    ELSE IF type = "out" \/ changeAmount < 0
        THEN previousQuantity - Abs(changeAmount)
    ELSE changeAmount

\* a filter without the stock condition: a plain, unconditional update
UpdateFilterUnconditional(doc, movementType, changeAmount) == TRUE

\* lines 428-432: the filter of findOneAndUpdate
UpdateFilterMatches(doc, movementType, changeAmount) ==
    movementType = "out" => doc.quantity >= Abs(changeAmount)

\* lines 433-438: the update of findOneAndUpdate
UpdatedProduct(doc, changeAmount, newQuantity, lowStock) ==
    [doc EXCEPT !.quantity = doc.quantity + changeAmount,
                !.stock_status = calculateStockStatus(newQuantity, lowStock)]

\* lines 390-425: validation, Product.findById, advisory stock check
AdjustRead(r) ==
    /\ adj[r].pc = "idle"
    /\ \E pid \in DOMAIN products \cup {MissingId}, change \in Changes,
          type \in MovementTypes :
         LET req == [AdjIdle EXCEPT !.productId = pid, !.change = change,
                                    !.type = type]
         IN  IF change = 0
               THEN adj' = [adj EXCEPT ![r] =
                        [req EXCEPT !.pc = "failed", !.error = "bad_request"]]
             ELSE IF pid \notin DOMAIN products
               THEN adj' = [adj EXCEPT ![r] =
                        [req EXCEPT !.pc = "failed", !.error = "not_found"]]
             ELSE LET prev == products[pid].quantity
                      read == [req EXCEPT
                                 !.previousQuantity = prev,
                                 !.lowStock = products[pid].low_stock_quantity]
                  IN  IF MovementType(type, change) = "out" /\ prev < Abs(change)
                        THEN adj' = [adj EXCEPT ![r] =
                                 [read EXCEPT !.pc = "failed",
                                              !.error = "insufficient_stock"]]
                        ELSE adj' = [adj EXCEPT ![r] =
                                 [read EXCEPT !.pc = "read"]]
    /\ UNCHANGED <<products, movements, orders, transactions, notifications,
                   cre, upd, initial, ups, pup, accessVars>>

\* lines 427-447: Product.findOneAndUpdate
AdjustWrite(r) ==
    /\ adj[r].pc = "read"
    /\ LET a == adj[r]
           pid == a.productId
           mt == MovementType(a.type, a.change)
           nq == NewQuantity(a.type, a.change, a.previousQuantity)
       IN  IF pid \in DOMAIN products
              /\ UpdateFilterMatches(products[pid], mt, a.change)
             THEN LET doc == UpdatedProduct(products[pid], a.change, nq, a.lowStock)
                  IN  /\ products' = [products EXCEPT ![pid] = doc]
                      /\ adj' = [adj EXCEPT ![r].pc = "written",
                                            ![r].updatedQuantity = doc.quantity]
             ELSE /\ products' = products
                  /\ adj' = [adj EXCEPT ![r].pc = "failed",
                                        ![r].error = IF mt = "out"
                                                       THEN "insufficient_stock"
                                                       ELSE "not_found"]
    /\ UNCHANGED <<movements, orders, transactions, notifications, cre, upd,
                   initial, ups, pup, accessVars>>

\* models/InventoryMovement.ts lines 32-41: previous_quantity, new_quantity min 0
MovementValid(m) == m.previous_quantity >= 0 /\ m.new_quantity >= 0

\* lines 449-459: the InventoryMovement document
MovementOf(a) ==
    [ product           |-> a.productId,
      type              |-> MovementType(a.type, a.change),
      quantity          |-> Abs(a.change),
      previous_quantity |-> a.previousQuantity,
      new_quantity      |-> a.updatedQuantity ]

\* lines 449-475: InventoryMovement.create and the response
AdjustRecord(r) ==
    /\ adj[r].pc = "written"
    /\ IF MovementValid(MovementOf(adj[r]))
         THEN /\ movements' = Append(movements, MovementOf(adj[r]))
              /\ adj' = [adj EXCEPT ![r].pc = "ok"]
         ELSE /\ movements' = movements
              /\ adj' = [adj EXCEPT ![r].pc = "failed",
                                    ![r].error = "validation_error"]
    /\ UNCHANGED <<products, orders, transactions, notifications, cre, upd,
                   initial, ups, pup, accessVars>>

---------------------------------------------------------------------------
(* Specification of the stock adjustment gateway: one product, concurrent  *)
(* adjustStock requests.                                                   *)

Init ==
    /\ \E q \in 0..MaxQty, low \in 0..MaxLow :
         products = [pid \in {"p1"} |-> ProductDoc(pid, q, low, "active", q)]
    /\ initial = products
    /\ movements = <<>>
    /\ adj = [r \in AdjustReqs |-> AdjIdle]
    /\ orders = <<>>
    /\ transactions = <<>>
    /\ notifications = <<>>
    /\ cre = <<>>
    /\ upd = 0
    /\ ups = <<>>
    /\ pup = <<>>
    /\ AccessIdle

Next ==
    \E r \in AdjustReqs : AdjustRead(r) \/ AdjustWrite(r) \/ AdjustRecord(r)

Spec == Init /\ [][Next]_vars

---------------------------------------------------------------------------
(* Order documents (models/Order) and the order controller                 *)

OrderStatuses == {"pending", "processing", "confirmed", "shipped",
                  "delivered", "cancelled", "rejected", "returned"}
Notes == {NoValue, "note"}
Actor == "staff"
Customer == "customer"

\* the price a client puts on a line of its request; no product has it
ClientPrice == 9

\* request bodies: one or two lines, each a product id, a quantity and the
\* client's price
ItemChoices ==
    [productId : {"p1", "p2", MissingId}, quantity : 1..MaxOrderQty,
     price : {ClientPrice}]
ItemLists ==
    {<<>>} \cup {<<a>> : a \in ItemChoices}
           \cup {<<a, b>> : a \in ItemChoices, b \in ItemChoices}

CreIdle ==
    [ pc |-> "idle", items |-> <<>>, i |-> 1, orderItems |-> <<>>,
      subtotal |-> 0, error |-> NoValue ]

RECURSIVE SumSubtotals(_)
SumSubtotals(items) ==
    IF items = <<>> THEN 0
    ELSE Head(items).subtotal + SumSubtotals(Tail(items))

\* total quantity of product pid over the lines of an item list
RECURSIVE ItemQty(_, _)
ItemQty(items, pid) ==
    IF items = <<>> THEN 0
    ELSE (IF Head(items).productId = pid THEN Head(items).quantity ELSE 0)
         + ItemQty(Tail(items), pid)

\* Product.findByIdAndUpdate(id, {$inc: {stockQuantity: n}}): no document, no
\* update
IncStockQuantity(prods, pid, n) ==
    IF pid \in DOMAIN prods
      THEN [prods EXCEPT ![pid].stockQuantity = @ + n]
      ELSE prods

\* Product.findByIdAndUpdate(id, {$inc: {soldQuantity: n}})
IncSoldQuantity(prods, pid, n) ==
    IF pid \in DOMAIN prods
      THEN [prods EXCEPT ![pid].soldQuantity = @ + n]
      ELSE prods

\* lines 243-247, 297-301: the loop returning the stock of every line
RECURSIVE ReturnStock(_, _)
ReturnStock(prods, items) ==
    IF items = <<>> THEN prods
    ELSE ReturnStock(IncStockQuantity(prods, Head(items).productId,
                                      Head(items).quantity), Tail(items))

\* lines 217-221: the loop updating the sold quantity of every line
RECURSIVE AddSold(_, _)
AddSold(prods, items) ==
    IF items = <<>> THEN prods
    ELSE AddSold(IncSoldQuantity(prods, Head(items).productId,
                                 Head(items).quantity), Tail(items))

\* lines 103-107: the request arrives; an empty item list is refused
CreateOrderStart(c) ==
    /\ cre[c].pc = "idle"
    /\ \E items \in ItemLists :
         cre' = [cre EXCEPT ![c] =
                   IF Len(items) = 0
                     THEN [CreIdle EXCEPT !.pc = "failed",
                                          !.error = "bad_request"]
                     ELSE [CreIdle EXCEPT !.pc = "check", !.items = items]]
    /\ UNCHANGED <<products, movements, adj, orders, transactions,
                   notifications, upd, initial, ups, pup, accessVars>>

\* a line snapshot that trusts the price sent by the client
OrderItemClientPrice(product, item) ==
    [ productId |-> item.productId, name |-> product.name,
      price |-> item.price, quantity |-> item.quantity,
      subtotal |-> item.price * item.quantity ]

\* a line snapshot whose subtotal forgets the quantity
OrderItemFlatSubtotal(product, item) ==
    [ productId |-> item.productId, name |-> product.name,
      price |-> product.price, quantity |-> item.quantity,
      subtotal |-> product.price ]

\* lines 128-137: the line snapshot taken from the product document
OrderItem(product, item) ==
    [ productId |-> item.productId, name |-> product.name,
      price |-> product.price, quantity |-> item.quantity,
      subtotal |-> product.price * item.quantity ]

\* lines 116-126: why a line is refused, NoValue when it is accepted
ItemError(prods, item) ==
    IF item.productId \notin DOMAIN prods THEN "not_found"
    ELSE IF prods[item.productId].status # "active" THEN "not_available"
    ELSE IF prods[item.productId].stockQuantity < item.quantity
      THEN "insufficient_stock"
    ELSE NoValue

\* a verification loop that reserves the stock of each line it accepts
CheckEffectReserving(prods, item) ==
    IncStockQuantity(prods, item.productId, -item.quantity)

\* lines 113-138: the verification loop writes nothing to storage
CheckEffect(prods, item) == prods

\* lines 113-138: one turn of the verification loop (Product.findById)
CreateOrderCheck(c) ==
    /\ cre[c].pc = "check"
    /\ LET r == cre[c]
           item == r.items[r.i]
           err == ItemError(products, item)
       IN  IF err # NoValue
             THEN /\ cre' = [cre EXCEPT ![c].pc = "failed", ![c].error = err]
                  /\ products' = products
             ELSE /\ cre' = [cre EXCEPT
                       ![c].orderItems =
                           Append(@, OrderItem(products[item.productId], item)),
                       ![c].subtotal =
                           @ + OrderItem(products[item.productId], item).subtotal,
                       ![c].i = IF r.i = Len(r.items) THEN 1 ELSE r.i + 1,
                       ![c].pc = IF r.i = Len(r.items) THEN "create"
                                                       ELSE "check"]
                  /\ products' = CheckEffect(products, item)
    /\ UNCHANGED <<movements, adj, orders, transactions, notifications, upd,
                   initial, ups, pup, accessVars>>

\* lines 140-160: the Order document
OrderDoc(r) ==
    [ items          |-> r.orderItems,
      subtotal       |-> r.subtotal,
      taxAmount      |-> 0,
      shippingAmount |-> 0,
      discountAmount |-> 0,
      totalAmount    |-> r.subtotal + 0 + 0 - 0,
      customerId     |-> Customer,
      status         |-> "pending",
      paymentStatus  |-> "unpaid",
      notes          |-> NoValue,
      cancelReason   |-> NoValue,
      processedBy    |-> NoValue,
      processedAt    |-> 0 ]

\* lines 145-160: Order.create
CreateOrderPersist(c) ==
    /\ cre[c].pc = "create"
    /\ orders' = (c :> OrderDoc(cre[c])) @@ orders
    /\ cre' = [cre EXCEPT ![c].pc = "reduce"]
    /\ UNCHANGED <<products, movements, adj, transactions, notifications, upd,
                   initial, ups, pup, accessVars>>

\* lines 162-167: one turn of the loop reducing the stock quantities
CreateOrderReduce(c) ==
    /\ cre[c].pc = "reduce"
    /\ LET r == cre[c]
           item == r.items[r.i]
       IN  /\ products' = IncStockQuantity(products, item.productId,
                                           -item.quantity)
           /\ cre' = [cre EXCEPT
                        ![c].i = IF r.i = Len(r.items) THEN 1 ELSE r.i + 1,
                        ![c].pc = IF r.i = Len(r.items) THEN "notify"
                                                        ELSE "reduce"]
    /\ UNCHANGED <<movements, adj, orders, transactions, notifications, upd,
                   initial, ups, pup, accessVars>>

\* lines 169-185: Notification.create, emitAdminNotification, the response
CreateOrderNotify(c) ==
    /\ cre[c].pc = "notify"
    /\ notifications' = Append(notifications,
           [ recipientId |-> Customer, title |-> "New Order",
             type |-> "order", priority |-> "high", entityId |-> c ])
    /\ cre' = [cre EXCEPT ![c].pc = "done"]
    /\ UNCHANGED <<products, movements, adj, orders, transactions, upd,
                   initial, ups, pup, accessVars>>

\* delivered side effects keyed on the target status alone
EntersDeliveredAlways(status, oldStatus) == status = "delivered"

\* line 212: the delivered side effects run on entering delivered
EntersDelivered(status, oldStatus) ==
    status = "delivered" /\ oldStatus # "delivered"

\* a handler returning stock on rejection only
ReturnsStockOnRejectOnly(status) == status = "rejected"

\* line 241: the statuses that return the stock
ReturnsStock(status) == status = "cancelled" \/ status = "rejected"

\* one sale transaction per order line
SaleTransactionsPerLine(o, doc) ==
    [ k \in 1..Len(doc.items) |->
        [ type |-> "income", category |-> "sale",
          amount |-> doc.items[k].subtotal, entityType |-> "order",
          entityId |-> o, status |-> "completed" ] ]

\* lines 223-238: Transaction.create
SaleTransactions(o, doc) ==
    << [ type |-> "income", category |-> "sale", amount |-> doc.totalAmount,
         entityType |-> "order", entityId |-> o, status |-> "completed" ] >>

\* lines 256-268: the notification for the customer
StatusNotification(o, doc, status) ==
    [ recipientId |-> doc.customerId, title |-> status,
      type |-> IF status = "rejected" THEN "reject" ELSE "order",
      priority |-> "high", entityId |-> o ]

\* an update that also records the notes as cancelReason on cancellation
OrderInMemoryReasonOnCancel(found, status, notes, at) ==
    [found EXCEPT
       !.status = status,
       !.processedBy = Actor,
       !.processedAt = at,
       !.notes = IF notes # NoValue THEN notes ELSE @,
       !.paymentStatus = IF EntersDelivered(status, found.status)
                           THEN "paid" ELSE @,
       !.cancelReason = IF ReturnsStock(status) THEN notes ELSE @]

\* lines 201-214, 249-251: the document as the handler holds it in memory
\* when it reaches order.save(); `at` is the time of line 205
OrderInMemory(found, status, notes, at) ==
    [found EXCEPT
       !.status = status,
       !.processedBy = Actor,
       !.processedAt = at,
       !.notes = IF notes # NoValue THEN notes ELSE @,
       !.paymentStatus = IF EntersDelivered(status, found.status)
                           THEN "paid" ELSE @,
       !.cancelReason = IF status = "rejected" THEN notes ELSE @]

\* lines 193-277: updateOrderStatus; the calls served so far are its clock
UpdateOrderStatus(o, status, notes) ==
    /\ upd < MaxUpdates
    /\ o \in DOMAIN orders
    /\ LET old == orders[o]
           delivering == EntersDelivered(status, old.status)
           returning == ReturnsStock(status)
           saved == OrderInMemory(old, status, notes, upd + 1)
           sold == IF delivering THEN AddSold(products, old.items)
                                 ELSE products
       IN  /\ products' = IF returning THEN ReturnStock(sold, old.items)
                                       ELSE sold
           /\ transactions' = IF delivering
                                THEN transactions \o SaleTransactions(o, old)
                                ELSE transactions
           /\ orders' = [orders EXCEPT ![o] = saved]
           /\ notifications' =
                IF saved.customerId # NoValue
                  THEN Append(notifications, StatusNotification(o, saved, status))
                  ELSE notifications
    /\ upd' = upd + 1
    /\ UNCHANGED <<movements, adj, cre, initial, ups, pup, accessVars>>

\* a deletion that accepts an order in any status
CanDeleteAny(order) == TRUE

\* lines 290-293: only a pending order can be deleted
CanDelete(order) == order.status = "pending"

\* lines 283-307: deleteOrder
DeleteOrder(o) ==
    /\ upd < MaxUpdates
    /\ o \in DOMAIN orders
    /\ CanDelete(orders[o])
    /\ products' = ReturnStock(products, orders[o].items)
    /\ orders' = [x \in DOMAIN orders \ {o} |-> orders[x]]
    /\ upd' = upd + 1
    /\ UNCHANGED <<movements, adj, transactions, notifications, cre, initial,
                   ups, pup, accessVars>>

---------------------------------------------------------------------------
(* Specifications of the order workflow, over two products.                *)

OrderProducts ==
    { [pid \in {"p1", "p2"} |->
         IF pid = "p1" THEN ProductDoc(pid, sq, 0, "active", sq)
                       ELSE ProductDoc(pid, 1, 0, st, 1)] :
      sq \in 0..MaxQty, st \in {"active", "inactive"} }

InitWith(slots) ==
    /\ products \in OrderProducts
    /\ initial = products
    /\ movements = <<>>
    /\ adj = <<>>
    /\ orders = <<>>
    /\ transactions = <<>>
    /\ notifications = <<>>
    /\ cre = [c \in slots |-> CreIdle]
    /\ upd = 0
    /\ ups = <<>>
    /\ pup = <<>>
    /\ AccessIdle

\* createOrder requests racing each other; no order is touched afterwards
InitCreate == InitWith(CreateReqs)

NextCreate ==
    \E c \in CreateReqs :
       \/ CreateOrderStart(c)
       \/ CreateOrderCheck(c)
       \/ CreateOrderPersist(c)
       \/ CreateOrderReduce(c)
       \/ CreateOrderNotify(c)

SpecCreate == InitCreate /\ [][NextCreate]_vars

\* the life of one order: its creation, then status updates and deletion
OrderReqs == {"c1"}

InitOrder == InitWith(OrderReqs)

NextOrder ==
    \/ \E c \in OrderReqs :
         \/ CreateOrderStart(c)
         \/ CreateOrderCheck(c)
         \/ CreateOrderPersist(c)
         \/ CreateOrderReduce(c)
         \/ CreateOrderNotify(c)
    \/ \E o \in OrderReqs, status \in OrderStatuses, notes \in Notes :
         UpdateOrderStatus(o, status, notes)
    \/ \E o \in OrderReqs : DeleteOrder(o)

SpecOrder == InitOrder /\ [][NextOrder]_vars

---------------------------------------------------------------------------
(* order controller: updateOrderStatus, one action per awaited storage     *)
(* call.  Every storage call either succeeds or throws; asyncHandler       *)
(* forwards what is thrown and the handler stops there.                    *)

UpdateReqs == {"u1", "u2"}      \* updateOrderStatus request slots
StoredOrder == "o1"             \* _id of the order the requests address

NoOrder == OrderDoc(CreIdle)

UpsIdle ==
    [ pc |-> "idle", orderId |-> MissingId, status |-> "pending",
      notes |-> NoValue, found |-> NoOrder, at |-> 0, i |-> 1,
      error |-> NoValue ]

\* assignments that reach the stored document at once
AssignPersists(stored, mem) == mem

\* lines 201-209: the assignments change the in-memory document only
AfterAssign(stored, mem) == stored

\* a save that sends nothing to storage
SaveNothing(stored, found, mem) == stored

\* line 254: order.save() stores the paths whose value was changed in memory
SaveOrder(stored, found, mem) ==
    [f \in DOMAIN stored |-> IF mem[f] # found[f] THEN mem[f] ELSE stored[f]]

\* lines 212, 241: the first side effect after the assignments
AfterFind(status, oldStatus) ==
    IF EntersDelivered(status, oldStatus) THEN "sold"
    ELSE IF ReturnsStock(status) THEN "return"
    ELSE "save"

\* lines 195-209: Order.findById and the assignments in memory; the calls
\* that have reached line 205 so far are the clock of processedAt
UpdFind(u) ==
    /\ ups[u].pc = "idle"
    /\ \E o \in {StoredOrder, MissingId}, status \in OrderStatuses,
          notes \in Notes :
         LET req == [UpsIdle EXCEPT !.orderId = o, !.status = status,
                                    !.notes = notes]
         IN  IF o \notin DOMAIN orders
               THEN /\ ups' = [ups EXCEPT ![u] =
                           [req EXCEPT !.pc = "failed", !.error = "not_found"]]
                    /\ orders' = orders
               ELSE /\ ups' = [ups EXCEPT ![u] =
                           [req EXCEPT !.found = orders[o],
                                       !.at = upd + 1,
                                       !.pc = AfterFind(status,
                                                        orders[o].status)]]
                    /\ orders' = [orders EXCEPT ![o] =
                           AfterAssign(@, OrderInMemory(orders[o], status,
                                                        notes, upd + 1))]
    /\ upd' = upd + 1
    /\ UNCHANGED <<products, movements, adj, transactions, notifications,
                   cre, initial, pup, accessVars>>

\* lines 216-221: one turn of the loop updating the sold quantities
UpdSold(u) ==
    /\ ups[u].pc = "sold"
    /\ LET r == ups[u]
           item == r.found.items[r.i]
           last == r.i = Len(r.found.items)
       IN  \E ok \in BOOLEAN :
             IF ok
               THEN /\ products' = IncSoldQuantity(products, item.productId,
                                                   item.quantity)
                    /\ ups' = [ups EXCEPT
                                 ![u].i = IF last THEN 1 ELSE r.i + 1,
                                 ![u].pc = IF last THEN "transact" ELSE "sold"]
               ELSE /\ products' = products
                    /\ ups' = [ups EXCEPT ![u].pc = "failed",
                                          ![u].error = "side_effect_failed"]
    /\ UNCHANGED <<movements, adj, orders, transactions, notifications, cre,
                   upd, initial, pup, accessVars>>

\* lines 223-238: Transaction.create
UpdTransact(u) ==
    /\ ups[u].pc = "transact"
    /\ \E ok \in BOOLEAN :
         IF ok
           THEN /\ transactions' =
                     transactions \o SaleTransactions(ups[u].orderId,
                                                      ups[u].found)
                /\ ups' = [ups EXCEPT ![u].pc = "save"]
           ELSE /\ transactions' = transactions
                /\ ups' = [ups EXCEPT ![u].pc = "failed",
                                      ![u].error = "side_effect_failed"]
    /\ UNCHANGED <<products, movements, adj, orders, notifications, cre, upd,
                   initial, pup, accessVars>>

\* lines 241-247: one turn of the loop returning the stock
UpdReturn(u) ==
    /\ ups[u].pc = "return"
    /\ LET r == ups[u]
           item == r.found.items[r.i]
           last == r.i = Len(r.found.items)
       IN  \E ok \in BOOLEAN :
             IF ok
               THEN /\ products' = IncStockQuantity(products, item.productId,
                                                    item.quantity)
                    /\ ups' = [ups EXCEPT
                                 ![u].i = IF last THEN 1 ELSE r.i + 1,
                                 ![u].pc = IF last THEN "save" ELSE "return"]
               ELSE /\ products' = products
                    /\ ups' = [ups EXCEPT ![u].pc = "failed",
                                          ![u].error = "side_effect_failed"]
    /\ UNCHANGED <<movements, adj, orders, transactions, notifications, cre,
                   upd, initial, pup, accessVars>>

\* lines 254-257: order.save()
UpdSave(u) ==
    /\ ups[u].pc = "save"
    /\ LET r == ups[u]
           o == r.orderId
           mem == OrderInMemory(r.found, r.status, r.notes, r.at)
       IN  \E ok \in BOOLEAN :
             IF ok /\ o \in DOMAIN orders
               THEN /\ orders' = [orders EXCEPT ![o] =
                                     SaveOrder(@, r.found, mem)]
                    /\ ups' = [ups EXCEPT ![u].pc =
                                 IF mem.customerId # NoValue THEN "notify"
                                                             ELSE "done"]
               ELSE /\ orders' = orders
                    /\ ups' = [ups EXCEPT ![u].pc = "failed",
                                          ![u].error = "save_failed"]
    /\ UNCHANGED <<products, movements, adj, transactions, notifications,
                   cre, upd, initial, pup, accessVars>>

\* lines 257-275: Notification.create, the socket emits, the response
UpdNotify(u) ==
    /\ ups[u].pc = "notify"
    /\ LET r == ups[u]
           mem == OrderInMemory(r.found, r.status, r.notes, r.at)
       IN  \E ok \in BOOLEAN :
             IF ok
               THEN /\ notifications' =
                         Append(notifications,
                                StatusNotification(r.orderId, mem, r.status))
                    /\ ups' = [ups EXCEPT ![u].pc = "done"]
               ELSE /\ notifications' = notifications
                    /\ ups' = [ups EXCEPT ![u].pc = "failed",
                                          ![u].error = "notification_failed"]
    /\ UNCHANGED <<products, movements, adj, orders, transactions, cre, upd,
                   initial, pup, accessVars>>

---------------------------------------------------------------------------
(* Specification of the status transitions of one stored order: a pending  *)
(* order of two lines, with or without a customer reference, and           *)
(* updateOrderStatus requests that may fail at any storage call.           *)

UpdateProducts ==
    [pid \in {"p1", "p2"} |-> ProductDoc(pid, MaxQty, 0, "active", MaxQty)]

StoredItems ==
    << OrderItem(UpdateProducts["p1"],
                 [productId |-> "p1", quantity |-> 1, price |-> ClientPrice]),
       OrderItem(UpdateProducts["p2"],
                 [productId |-> "p2", quantity |-> MaxOrderQty,
                  price |-> ClientPrice]) >>

StoredOrders ==
    { (StoredOrder :>
         [OrderDoc([CreIdle EXCEPT !.orderItems = StoredItems,
                                   !.subtotal = SumSubtotals(StoredItems)])
            EXCEPT !.customerId = cust]) : cust \in {Customer, NoValue} }

InitUpdate ==
    /\ products = ReturnStock(UpdateProducts,
                              [k \in 1..Len(StoredItems) |->
                                 [StoredItems[k] EXCEPT !.quantity = -@]])
    /\ initial = products
    /\ orders \in StoredOrders
    /\ movements = <<>>
    /\ adj = <<>>
    /\ transactions = <<>>
    /\ notifications = <<>>
    /\ cre = <<>>
    /\ upd = 0
    /\ ups = [u \in UpdateReqs |-> UpsIdle]
    /\ pup = <<>>
    /\ AccessIdle

NextUpdate ==
    \E u \in UpdateReqs :
       \/ UpdFind(u)
       \/ UpdSold(u)
       \/ UpdTransact(u)
       \/ UpdReturn(u)
       \/ UpdSave(u)
       \/ UpdNotify(u)

SpecUpdate == InitUpdate /\ [][NextUpdate]_vars

---------------------------------------------------------------------------
(* product.controller: createProduct and updateProduct; models/Product:    *)
(* the pre-save hook.  A request body is a function from the fields it     *)
(* carries to their values; a field the request omits is not in its        *)
(* domain.                                                                 *)

Field(name, values) == {<<>>} \cup {name :> v : v \in values}

NewName == "renamed"            \* the name an update gives a product
NewPrice == 3                   \* the price an update gives a product

\* bodies carrying stock fields
StockBodies ==
    { q @@ l : q \in Field("quantity", {0, MaxQty}),
               l \in Field("low_stock_quantity", {0, MaxLow}) }

\* bodies carrying display fields, with or without a quantity
DisplayBodies ==
    { n @@ pr @@ q : n \in Field("name", {NewName}),
                     pr \in Field("price", {NewPrice}),
                     q \in Field("quantity", {MaxQty}) }

\* Object.assign(target, data), and a document built from data over the
\* schema defaults
Assign(target, data) ==
    [f \in DOMAIN target |-> IF f \in DOMAIN data THEN data[f] ELSE target[f]]

\* models/Product.ts lines 361-372: the pre-save hook
PreSave(doc, modified) ==
    IF "quantity" \in modified \/ "low_stock_quantity" \in modified
      THEN [doc EXCEPT !.stock_status =
              IF doc.quantity = 0 THEN "out_of_stock"
              ELSE IF doc.quantity <= doc.low_stock_quantity THEN "low_stock"
              ELSE "in_stock"]
      ELSE doc

\* models/Product.ts lines 189-223: the values a new document takes for the
\* fields its data omits
ProductDefaults(pid) ==
    [ name               |-> Name(pid),
      price              |-> Price(pid),
      quantity           |-> 0,
      low_stock_quantity |-> 0,
      stock_status       |-> "in_stock",
      status             |-> NoValue,
      stockQuantity      |-> 0,
      soldQuantity       |-> 0 ]

\* lines 231-234: createProduct derives stock_status when the body carries
\* both quantity and low_stock_quantity
CreateData(body) ==
    IF "quantity" \in DOMAIN body /\ "low_stock_quantity" \in DOMAIN body
      THEN ("stock_status" :> calculateStockStatus(body.quantity,
                                                   body.low_stock_quantity))
           @@ body
      ELSE body

\* lines 184-258: createProduct; the paths of a new document that count as
\* modified are those its data sets
CreateProduct(pid, body) ==
    /\ pid \notin DOMAIN products
    /\ LET data == CreateData(body)
           doc == PreSave(Assign(ProductDefaults(pid), data), DOMAIN data)
       IN  products' = (pid :> doc) @@ products
    /\ UNCHANGED <<movements, adj, orders, transactions, notifications, cre,
                   upd, initial, ups, pup, accessVars>>

ProductReqs == {"e1"}           \* updateProduct request slots

PupIdle ==
    [ pc |-> "idle", productId |-> MissingId, data |-> <<>>,
      found |-> ProductDefaults(MissingId), error |-> NoValue ]

\* lines 313-317: updateProduct derives stock_status when the body carries
\* a quantity
UpdateData(body, product) ==
    IF "quantity" \in DOMAIN body
      THEN ("stock_status" :>
               calculateStockStatus(body.quantity,
                   IF "low_stock_quantity" \in DOMAIN body
                     THEN body.low_stock_quantity
                     ELSE product.low_stock_quantity))
           @@ body
      ELSE body

\* the paths of a loaded document that an assignment has changed
ModifiedPaths(found, mem) == {f \in DOMAIN found : mem[f] # found[f]}

\* line 332: product.save() stores the paths changed in memory
SaveProduct(stored, found, mem) ==
    [f \in DOMAIN stored |->
        IF f \in ModifiedPaths(found, mem) THEN mem[f] ELSE stored[f]]

\* lines 267-271: Product.findById
UpdateProductRead(e, bodies) ==
    /\ pup[e].pc = "idle"
    /\ \E pid \in {"p1", "p2", MissingId}, body \in bodies :
         pup' = [pup EXCEPT ![e] =
                   IF pid \notin DOMAIN products
                     THEN [PupIdle EXCEPT !.pc = "failed", !.productId = pid,
                                          !.error = "not_found"]
                     ELSE [PupIdle EXCEPT !.pc = "read", !.productId = pid,
                                          !.data = body,
                                          !.found = products[pid]]]
    /\ UNCHANGED <<products, movements, adj, orders, transactions,
                   notifications, cre, upd, initial, ups, accessVars>>

\* lines 313-332: Object.assign(product, data) and product.save()
UpdateProductSave(e) ==
    /\ pup[e].pc = "read"
    /\ LET r == pup[e]
           assigned == Assign(r.found, UpdateData(r.data, r.found))
           mem == PreSave(assigned, ModifiedPaths(r.found, assigned))
       IN  /\ products' = [products EXCEPT ![r.productId] =
                              SaveProduct(@, r.found, mem)]
           /\ pup' = [pup EXCEPT ![e].pc = "ok"]
    /\ UNCHANGED <<movements, adj, orders, transactions, notifications, cre,
                   upd, initial, ups, accessVars>>

---------------------------------------------------------------------------
(* Specification of the catalogue: product p1 is stored, p2 can be         *)
(* created; an updateProduct request and an adjustStock request on p1     *)
(* interleave.                                                             *)

CatalogAdjustReqs == {"a1"}

InitCatalog ==
    /\ \E q \in 0..MaxQty, low \in 0..MaxLow :
         products = [pid \in {"p1"} |-> ProductDoc(pid, q, low, "active", q)]
    /\ initial = products
    /\ movements = <<>>
    /\ adj = [r \in CatalogAdjustReqs |-> AdjIdle]
    /\ orders = <<>>
    /\ transactions = <<>>
    /\ notifications = <<>>
    /\ cre = <<>>
    /\ upd = 0
    /\ ups = <<>>
    /\ pup = [e \in ProductReqs |-> PupIdle]
    /\ AccessIdle

NextCatalog ==
    \/ \E body \in StockBodies : CreateProduct("p2", body)
    \/ \E e \in ProductReqs :
         \/ UpdateProductRead(e, StockBodies)
         \/ UpdateProductSave(e)
    \/ \E r \in CatalogAdjustReqs :
         \/ AdjustRead(r) /\ adj'[r].productId = "p1"
                          /\ adj'[r].type = "adjustment"
         \/ AdjustWrite(r)
         \/ AdjustRecord(r)

SpecCatalog == InitCatalog /\ [][NextCatalog]_vars

---------------------------------------------------------------------------
(* Specification of the order snapshot: one createOrder request, while     *)
(* product p1 is renamed, repriced and restocked by updateProduct and      *)
(* adjustStock, and the order's status is updated once.                    *)

InitSnapshot ==
    /\ products \in OrderProducts
    /\ initial = products
    /\ movements = <<>>
    /\ adj = [r \in CatalogAdjustReqs |-> AdjIdle]
    /\ orders = <<>>
    /\ transactions = <<>>
    /\ notifications = <<>>
    /\ cre = [c \in OrderReqs |-> CreIdle]
    /\ upd = 0
    /\ ups = <<>>
    /\ pup = [e \in ProductReqs |-> PupIdle]
    /\ AccessIdle

NextSnapshot ==
    \/ \E c \in OrderReqs :
         \/ CreateOrderStart(c)
         \/ CreateOrderCheck(c)
         \/ CreateOrderPersist(c)
         \/ CreateOrderReduce(c)
         \/ CreateOrderNotify(c)
    \/ \E e \in ProductReqs :
         \/ UpdateProductRead(e, DisplayBodies) /\ pup'[e].productId = "p1"
         \/ UpdateProductSave(e)
    \/ \E r \in CatalogAdjustReqs :
         \/ AdjustRead(r) /\ adj'[r].productId = "p1" /\ adj'[r].type = "in"
                          /\ adj'[r].change = 1
         \/ AdjustWrite(r)
         \/ AdjustRecord(r)
    \/ \E o \in OrderReqs, status \in OrderStatuses :
         upd = 0 /\ UpdateOrderStatus(o, status, NoValue)

SpecSnapshot == InitSnapshot /\ [][NextSnapshot]_vars

---------------------------------------------------------------------------
(* Properties of the stock adjustment gateway                              *)

Finished(a) == a.pc \in {"ok", "failed"}
IsDecrement(a) == MovementType(a.type, a.change) = "out"

\* C1: after any interleaving of adjustStock calls, with any type combined
\* with any non-zero signed change, no product's stored quantity is negative.
C1_QuantityNeverNegative ==
    \A pid \in DOMAIN products : products[pid].quantity >= 0

\* C2: two decrements ('out') on the same product whose stock covers either
\* one but not both: once both have finished, exactly one has succeeded, the
\* other has failed with the insufficient-stock error, and the stored quantity
\* is the initial quantity minus the successful decrement, never negative.
C2_ConcurrentDecrementOneWins ==
    \A r1 \in AdjustReqs : \A r2 \in AdjustReqs \ {r1} :
       LET a1 == adj[r1]
           a2 == adj[r2]
           pid == a1.productId
           q0 == initial[pid].quantity
       IN  ( /\ Finished(a1) /\ Finished(a2)
             /\ pid \in DOMAIN products /\ a2.productId = pid
             /\ IsDecrement(a1) /\ IsDecrement(a2)
             /\ \A r3 \in AdjustReqs \ {r1, r2} : adj[r3].pc = "idle"
             /\ q0 >= Abs(a1.change) /\ q0 >= Abs(a2.change)
             /\ q0 < Abs(a1.change) + Abs(a2.change) )
           => \E w \in {r1, r2} : \E l \in {r1, r2} \ {w} :
                 /\ adj[w].pc = "ok"
                 /\ adj[l].pc = "failed"
                 /\ adj[l].error = "insufficient_stock"
                 /\ products[pid].quantity = q0 - Abs(adj[w].change)
                 /\ products[pid].quantity >= 0

\* C2 witness: both decrements read the initial stock and passed their own
\* stock check before either wrote; one has won and the other has lost.
C2_Witness ==
    \E r1 \in AdjustReqs : \E r2 \in AdjustReqs \ {r1} :
       LET a1 == adj[r1]
           a2 == adj[r2]
           q0 == initial["p1"].quantity
       IN  /\ a1.productId = "p1" /\ a2.productId = "p1"
           /\ IsDecrement(a1) /\ IsDecrement(a2)
           /\ a1.previousQuantity = q0 /\ a2.previousQuantity = q0
           /\ q0 >= Abs(a1.change) /\ q0 >= Abs(a2.change)
           /\ q0 < Abs(a1.change) + Abs(a2.change)
           /\ a1.pc = "ok" /\ a2.pc = "failed"
           /\ a2.error = "insufficient_stock"
           /\ products["p1"].quantity = q0 - Abs(a1.change)

StockStatusConsistent(pid) ==
    products[pid].stock_status =
        calculateStockStatus(products[pid].quantity,
                             products[pid].low_stock_quantity)

\* C3: immediately after the update of every adjustStock call that succeeds,
\* the stored stock_status equals f(stored quantity, low_stock_quantity).
C3_StatusDerivedAfterAdjust ==
    [][ \A r \in AdjustReqs :
          ( /\ adj[r].pc = "read" /\ adj'[r].pc = "written"
            /\ MovementValid(MovementOf(adj'[r])) )
          => StockStatusConsistent(adj[r].productId)' ]_vars

\* C4: every successful adjustStock call creates exactly one InventoryMovement
\* whose new_quantity - previous_quantity equals the signed change applied to
\* the stored quantity.
C4_MovementMatchesChange ==
    [][ \A r \in AdjustReqs :
          (adj[r].pc = "written" /\ adj'[r].pc = "ok")
          => /\ Len(movements') = Len(movements) + 1
             /\ LET m == movements'[Len(movements')]
                IN  m.new_quantity - m.previous_quantity = adj[r].change ]_vars

\* C10: an adjustStock decrease that the stored quantity cannot satisfy at the
\* moment of the write fails with the insufficient-stock error and leaves the
\* product's quantity, its stock_status and the movements unchanged.
C10_UnsatisfiableDecreaseFails ==
    [][ \A r \in AdjustReqs :
          ( /\ adj[r].pc = "read" /\ adj'[r].pc # "read"
            /\ adj[r].change < 0
            /\ products[adj[r].productId].quantity < Abs(adj[r].change) )
          => /\ adj'[r].pc = "failed"
             /\ adj'[r].error = "insufficient_stock"
             /\ products' = products
             /\ movements' = movements ]_vars

---------------------------------------------------------------------------
(* Properties of the order workflow                                        *)

Validating(r) == r.pc \in {"idle", "check"}

\* C5: order creation is all-or-nothing on failure: a createOrder request
\* fails only while it verifies its lines, and up to that point none of its
\* steps has changed a product or persisted an order, so a failed request
\* leaves no order and every product's stock as it was.
C5_FailedCreateChangesNothing ==
    [][ \A c \in DOMAIN cre :
          cre'[c] # cre[c] =>
            /\ Validating(cre[c]) => (products' = products /\ orders' = orders)
            /\ cre'[c].pc = "failed" =>
                 (Validating(cre[c]) /\ c \notin DOMAIN orders') ]_vars

\* C5 witness: two-line requests only, every one of them refused at its
\* second line for insufficient stock after its first line was accepted;
\* nothing is persisted and the products are as at the start.
C5_Witness ==
    /\ \A c \in DOMAIN cre :
          /\ cre[c].pc = "failed"
          /\ cre[c].error = "insufficient_stock"
          /\ Len(cre[c].items) = 2 /\ cre[c].i = 2
    /\ DOMAIN cre # {}
    /\ orders = <<>>
    /\ products = initial

\* C6: a createOrder request that is accepted for every line persists a
\* pending order and reduces, for each product, the inventory `quantity`
\* (the field adjustStock maintains) by the quantity ordered.
C6_CreateReducesQuantity ==
    \A c \in DOMAIN cre :
       ( /\ cre[c].pc = "done"
         /\ \A d \in DOMAIN cre \ {c} : cre[d].pc = "idle"
         /\ upd = 0 )
       => /\ c \in DOMAIN orders
          /\ orders[c].status = "pending"
          /\ \A pid \in DOMAIN products :
                products[pid].quantity =
                    initial[pid].quantity - ItemQty(cre[c].items, pid)

\* C7: when updateOrderStatus moves an order from a non-delivered status to
\* delivered, paymentStatus becomes paid and exactly one Transaction is
\* created: income, sale, amount = the order's totalAmount, linked to it.
C7_DeliveredPostsOneSale ==
    [][ \A o \in DOMAIN orders :
          ( /\ o \in DOMAIN orders'
            /\ orders[o].status # "delivered"
            /\ orders'[o].status = "delivered" )
          => /\ orders'[o].paymentStatus = "paid"
             /\ Len(transactions') = Len(transactions) + 1
             /\ SubSeq(transactions', 1, Len(transactions)) = transactions
             /\ LET t == transactions'[Len(transactions')]
                IN  /\ t.type = "income" /\ t.category = "sale"
                    /\ t.amount = orders[o].totalAmount
                    /\ t.entityType = "order" /\ t.entityId = o ]_vars

\* C7 witness: a two-line order delivered by one status update: paid, with
\* its single sale transaction of the order total.
C7_Witness ==
    /\ "c1" \in DOMAIN orders
    /\ upd = 1
    /\ orders["c1"].status = "delivered"
    /\ orders["c1"].paymentStatus = "paid"
    /\ Len(orders["c1"].items) = 2
    /\ Len(transactions) = 1
    /\ transactions[1].amount = orders["c1"].totalAmount
    /\ transactions[1].amount = SumSubtotals(orders["c1"].items)

\* C8: creating an order and then moving it to cancelled, with no other
\* activity on the products, leaves every product as it was before the order
\* was created.
C8_CancelRestoresStock ==
    \A c \in DOMAIN cre :
       ( /\ cre[c].pc = "done"
         /\ \A d \in DOMAIN cre \ {c} : cre[d].pc = "idle"
         /\ upd = 1
         /\ c \in DOMAIN orders
         /\ orders[c].status = "cancelled" )
       => products = initial

\* C8 witness: a completed two-line order on two products, cancelled by the
\* only status update served; the stock is back at its initial value.
C8_Witness ==
    /\ cre["c1"].pc = "done"
    /\ upd = 1
    /\ "c1" \in DOMAIN orders
    /\ orders["c1"].status = "cancelled"
    /\ ItemQty(orders["c1"].items, "p1") > 0
    /\ ItemQty(orders["c1"].items, "p2") > 0
    /\ products = initial

\* C9: under any interleaving of concurrent one-line createOrder requests for
\* the same product, the product's stock never becomes negative.
C9_ConcurrentCreateNeverNegative ==
    ( \A c \in DOMAIN cre :
         cre[c].pc # "idle" =>
            (Len(cre[c].items) = 1 /\ cre[c].items[1].productId = "p1") )
    => products["p1"].stockQuantity >= 0

---------------------------------------------------------------------------
(* Properties of the inventory ledger: quantity changes and their movements *)

\* the requests whose findOneAndUpdate has gone through and whose handler
\* has returned, with or without its movement
Committed(a) ==
    a.pc = "ok" \/ (a.pc = "failed" /\ a.error = "validation_error")

\* C11: the quantity change and its movement are one unit: once no
\* adjustStock call is between its update and its InventoryMovement.create,
\* there are as many movements as updates that went through, also when the
\* movement is refused by its schema.
C11_ChangeAndMovementAreOneUnit ==
    (\A r \in AdjustReqs : adj[r].pc # "written")
    => Len(movements) = Cardinality({r \in AdjustReqs : Committed(adj[r])})

\* C12: every movement recorded by adjustStock is consistent with its type:
\* 'in' has new_quantity = previous_quantity + quantity, 'out' has
\* new_quantity = previous_quantity - quantity.
C12_MovementConsistentWithType ==
    \A k \in 1..Len(movements) :
       LET m == movements[k]
       IN  /\ m.type = "in" => m.new_quantity = m.previous_quantity + m.quantity
           /\ m.type = "out" => m.new_quantity = m.previous_quantity - m.quantity

---------------------------------------------------------------------------
(* Properties of repeated status transitions                               *)

SalesOf(o) ==
    {k \in 1..Len(transactions) :
        /\ transactions[k].type = "income"
        /\ transactions[k].category = "sale"
        /\ transactions[k].entityId = o}

\* C14: the delivered side effects happen at most once per order, whatever
\* the sequence of status updates (leaving delivered and entering it again
\* included): at most one income/sale Transaction is linked to the order and
\* no product's sold counter exceeds the quantity the order holds of it.
C14_DeliveredEffectsOnce ==
    \A o \in DOMAIN orders :
       /\ Cardinality(SalesOf(o)) <= 1
       /\ \A pid \in DOMAIN products :
             products[pid].soldQuantity <= ItemQty(orders[o].items, pid)

\* C15: reserved stock is returned at most once per order: over any sequence
\* of status updates and deletions of the one order, once createOrder has
\* reduced the stock of all its lines, no product's stock exceeds what it was
\* before the order reserved them.
C15_StockReturnedAtMostOnce ==
    (\A c \in DOMAIN cre : cre[c].pc \in {"idle", "failed", "notify", "done"})
    => \A pid \in DOMAIN products :
          products[pid].stockQuantity <= initial[pid].stockQuantity

---------------------------------------------------------------------------
(* Properties of a status transition whose storage calls may fail          *)

OthersIdle(u) == \A v \in DOMAIN ups \ {u} : ups[v].pc = "idle"

\* C13: the new status is written only after all side effects have
\* succeeded: no step of an updateOrderStatus call up to and including its
\* side effects (sold counters, Transaction, stock return) writes the order,
\* and when one of them fails the stored order is still the one the call
\* found, prior status included.
C13_StatusWrittenAfterSideEffects ==
    [][ \A u \in DOMAIN ups :
          ( /\ ups'[u] # ups[u]
            /\ ups[u].pc \in {"idle", "sold", "transact", "return"} )
          => /\ orders' = orders
             /\ ( /\ ups'[u].error = "side_effect_failed"
                  /\ OthersIdle(u) )
                => /\ orders'[ups[u].orderId] = ups[u].found
                   /\ orders'[ups[u].orderId].status = "pending" ]_vars

\* C13 witness: a transition to delivered that has incremented a sold
\* counter and then failed before its Transaction existed; the stored order
\* is still pending and unpaid.
C13_Witness ==
    \E u \in DOMAIN ups :
       /\ ups[u].pc = "failed"
       /\ ups[u].error = "side_effect_failed"
       /\ ups[u].status = "delivered"
       /\ OthersIdle(u)
       /\ products["p1"].soldQuantity > 0
       /\ transactions = <<>>
       /\ orders[StoredOrder].status = "pending"
       /\ orders[StoredOrder].paymentStatus = "unpaid"

C17_NotificationFailureKeepsTransition ==
    \A u \in DOMAIN ups :
       ( /\ ups[u].pc = "failed"
         /\ ups[u].error = "notification_failed"
         /\ OthersIdle(u) )
       => LET r == ups[u]
              o == r.orderId
              delivering == EntersDelivered(r.status, r.found.status)
              returning == ReturnsStock(r.status)
          IN  /\ orders[o] = OrderInMemory(r.found, r.status, r.notes, r.at)
              /\ orders[o].status = r.status
              /\ delivering => orders[o].paymentStatus = "paid"
              /\ Cardinality(SalesOf(o)) = IF delivering THEN 1 ELSE 0
              /\ \A pid \in DOMAIN products :
                    /\ products[pid].soldQuantity =
                         IF delivering THEN ItemQty(r.found.items, pid) ELSE 0
                    /\ products[pid].stockQuantity =
                         initial[pid].stockQuantity +
                         (IF returning THEN ItemQty(r.found.items, pid) ELSE 0)

\* C17 witness: a delivery whose notification failed: the order is stored as
\* delivered and paid, with its sale Transaction.
C17_Witness ==
    \E u \in DOMAIN ups :
       /\ ups[u].pc = "failed"
       /\ ups[u].error = "notification_failed"
       /\ ups[u].status = "delivered"
       /\ OthersIdle(u)
       /\ orders[StoredOrder].status = "delivered"
       /\ orders[StoredOrder].paymentStatus = "paid"
       /\ Len(transactions) = 1
       /\ products["p2"].soldQuantity = MaxOrderQty

---------------------------------------------------------------------------
(* Properties of the catalogue                                             *)

\* C19: no operation other than adjustStock changes the stored quantity of
\* an existing product: every step that changes it is the update of an
\* adjustStock call on that product.
C19_OnlyAdjustStockWritesQuantity ==
    [][ \A pid \in DOMAIN products :
          ( /\ pid \in DOMAIN products'
            /\ products'[pid].quantity # products[pid].quantity )
          => \E r \in DOMAIN adj :
                /\ adj[r].pc = "read" /\ adj'[r].pc = "written"
                /\ adj[r].productId = pid ]_vars

\* C20: after every createProduct and every updateProduct call the stored
\* stock_status equals f(quantity, low_stock_quantity), also when the request
\* omits quantity and/or low_stock_quantity and when updateProduct changes
\* low_stock_quantity only.
C20_StatusDerivedAfterCreateAndUpdate ==
    [][ /\ \A pid \in DOMAIN products' \ DOMAIN products :
             StockStatusConsistent(pid)'
        /\ \A e \in DOMAIN pup :
             (pup[e].pc = "read" /\ pup'[e].pc = "ok")
             => StockStatusConsistent(pup[e].productId)' ]_vars

---------------------------------------------------------------------------
(* Properties of the order snapshot                                        *)

\* C18: each order line takes its name and price from the product record
\* as createOrder reads it, never the price sent by the client; the order
\* is stored with exactly these lines; and no later step (product update,
\* stock adjustment, status update) changes the items of a stored order.
C18_ItemsAreFrozenSnapshot ==
    [][ /\ \A c \in DOMAIN cre :
             Len(cre'[c].orderItems) = Len(cre[c].orderItems) + 1
             => LET line == cre'[c].orderItems[Len(cre'[c].orderItems)]
                    item == cre[c].items[cre[c].i]
                IN  /\ line.name = products[item.productId].name
                    /\ line.price = products[item.productId].price
                    /\ line.quantity = item.quantity
                    /\ line.subtotal = line.price * line.quantity
                    /\ SubSeq(cre'[c].orderItems, 1, Len(cre[c].orderItems))
                          = cre[c].orderItems
        /\ \A o \in DOMAIN orders' \ DOMAIN orders :
             orders'[o].items = cre[o].orderItems
        /\ \A o \in DOMAIN orders \cap DOMAIN orders' :
             orders'[o].items = orders[o].items ]_vars

\* C18 witness: a stored order with a line of p1 at p1's first name and
\* price, after p1 was renamed and repriced, restocked by adjustStock, and
\* after the order's status was updated.
C18_Witness ==
    /\ "c1" \in DOMAIN orders
    /\ upd = 1
    /\ orders["c1"].status = "shipped"
    /\ orders["c1"].items[1].productId = "p1"
    /\ orders["c1"].items[1].name = Name("p1")
    /\ orders["c1"].items[1].price = Price("p1")
    /\ products["p1"].name = NewName
    /\ products["p1"].price = NewPrice
    /\ \E r \in DOMAIN adj : adj[r].pc = "ok"


---------------------------------------------------------------------------
(* The order workflow in detail.                                           *)

\* C21: in createOrder the stock of every line is reserved before the order
\* is persisted: in no reachable state does the order exist while the stock
\* of one of its lines has not yet been decremented.
C21_StockReservedBeforePersist ==
    \A c \in DOMAIN cre :
       c \in DOMAIN orders => cre[c].pc \in {"notify", "done"}


\* a step of updateOrderStatus on order o in the one-step model
StatusStep(o) ==
    /\ upd' = upd + 1
    /\ o \in DOMAIN orders
    /\ o \in DOMAIN orders'

\* C22: an updateOrderStatus call with target delivered on an order that is
\* already delivered applies no delivered side effect: no Transaction is
\* created, no sold counter moves, paymentStatus stays as it is.
C22_RepeatedDeliveredNoEffect ==
    [][ \A o \in DOMAIN orders :
          ( /\ StatusStep(o)
            /\ orders[o].status = "delivered"
            /\ orders'[o].status = "delivered" )
          => /\ transactions' = transactions
             /\ products' = products
             /\ orders'[o].paymentStatus = orders[o].paymentStatus ]_vars

\* C22 witness: an order delivered, then delivered again: two status
\* notifications, one sale transaction.
C22_Witness ==
    /\ "c1" \in DOMAIN orders
    /\ upd = 2
    /\ orders["c1"].status = "delivered"
    /\ Len(notifications) >= 2
    /\ notifications[Len(notifications)].title = "delivered"
    /\ notifications[Len(notifications) - 1].title = "delivered"
    /\ Len(transactions) = 1

\* C23: a transition to cancelled or rejected returns the stock only when
\* the previous status is not delivered: cancelling or rejecting a delivered
\* order adds nothing back to the stock.
C23_DeliveredOrderReturnsNoStock ==
    [][ \A o \in DOMAIN orders :
          ( /\ StatusStep(o)
            /\ orders[o].status = "delivered"
            /\ orders'[o].status \in {"cancelled", "rejected"} )
          => \A pid \in DOMAIN products :
                products'[pid].stockQuantity = products[pid].stockQuantity
      ]_vars


\* C25: every stored order satisfies totalAmount = subtotal + taxAmount +
\* shippingAmount - discountAmount, subtotal = the sum of its lines'
\* subtotals, and each line's subtotal = price * quantity, at creation and
\* after any status updates.
C25_OrderTotalsConsistent ==
    \A o \in DOMAIN orders :
       LET doc == orders[o]
       IN  /\ doc.totalAmount = doc.subtotal + doc.taxAmount
                                  + doc.shippingAmount - doc.discountAmount
           /\ doc.subtotal = SumSubtotals(doc.items)
           /\ \A k \in DOMAIN doc.items :
                 doc.items[k].subtotal =
                    doc.items[k].price * doc.items[k].quantity

\* C25 witness: a two-line order with a line of two units, after two status
\* updates.
C25_Witness ==
    /\ "c1" \in DOMAIN orders
    /\ upd = 2
    /\ orders["c1"].status = "delivered"
    /\ Len(orders["c1"].items) = 2
    /\ orders["c1"].items[1].quantity = 2
    /\ orders["c1"].totalAmount > 0

\* C28: deleteOrder succeeds only for an order in status pending; for any
\* other status it fails and changes nothing; on a pending order it returns
\* each line's quantity to the product's stock and removes the order.
C28_DeleteOnlyPending ==
    [][ \A o \in DOMAIN orders :
          /\ orders[o].status # "pending" => o \in DOMAIN orders'
          /\ o \notin DOMAIN orders'
                => /\ orders[o].status = "pending"
                   /\ products' = ReturnStock(products, orders[o].items)
                   /\ \A x \in DOMAIN orders' : orders'[x] = orders[x]
      ]_vars

\* C28 witness: a two-line order was created and deleted while pending; the
\* order is gone and the stock is back at its initial value.
C28_Witness ==
    /\ cre["c1"].pc = "done"
    /\ Len(cre["c1"].items) = 2
    /\ "c1" \notin DOMAIN orders
    /\ upd = 1
    /\ products = initial

---------------------------------------------------------------------------
(* adjustStock: rejected requests and increases.                           *)

\* an adjustStock request that names an existing product and a positive
\* change
IsIncrease(a) == a.productId \in DOMAIN products /\ a.change > 0

\* C27: adjustStock rejects a zero change and an unknown product id with an
\* error and nothing changed; an increase on an existing product always
\* succeeds and raises quantity by the change.
C27_RejectsAndIncreases ==
    [][ \A r \in DOMAIN adj :
          /\ ( adj[r].pc = "idle" /\ adj'[r].pc # "idle"
               /\ ( adj'[r].change = 0
                    \/ adj'[r].productId \notin DOMAIN products ) )
             => /\ adj'[r].pc = "failed"
                /\ adj'[r].error = IF adj'[r].change = 0 THEN "bad_request"
                                                         ELSE "not_found"
                /\ products' = products
                /\ movements' = movements
          /\ IsIncrease(adj'[r])
             => /\ adj'[r].pc # "failed"
                /\ ( adj[r].pc = "read" /\ adj'[r].pc = "written" )
                   => products'[adj[r].productId].quantity =
                         products[adj[r].productId].quantity + adj[r].change
      ]_vars

---------------------------------------------------------------------------
(* The transaction controller: createTransaction and updateTransaction,    *)
(* next to the sale transactions posted by updateOrderStatus.              *)

MaxTransactions == 2    \* transactions created through createTransaction

TransactionReqs == {"t1", "t2"}     \* updateTransaction request slots
MissingTransaction == 0             \* an id that resolves to no document

\* models/Transaction.ts lines 67-72 and the fields the model follows
TransactionDefaults ==
    [ type |-> "expense", category |-> "other", amount |-> 1,
      entityType |-> NoValue, entityId |-> NoValue, status |-> "completed" ]

\* request bodies of createTransaction: the validated fields, with or
\* without a status, which the schema neither declares nor strips
CreateTransactionBodies ==
    { a @@ st : a \in {"amount" :> 1}, st \in Field("status", {"pending"}) }

\* request bodies of updateTransaction, which no schema validates
UpdateTransactionBodies ==
    { a @@ st : a \in Field("amount", {2}),
                st \in Field("status", {"completed"}) } \ {<<>>}

TupIdle ==
    [ pc |-> "idle", id |-> MissingTransaction, body |-> <<>>,
      found |-> TransactionDefaults, error |-> NoValue ]

\* lines 82-93: createTransaction
CreateTransaction(body) ==
    /\ Cardinality({k \in 1..Len(transactions) :
                       transactions[k].category = "other"}) < MaxTransactions
    /\ transactions' = Append(transactions, Assign(TransactionDefaults, body))
    /\ UNCHANGED <<products, movements, adj, orders, notifications, cre, upd,
                   initial, ups, pup, accessVars>>

\* lines 101-110: Transaction.findById and the status guard
UpdTransactionFind(t) ==
    /\ tup[t].pc = "idle"
    /\ \E id \in (1..Len(transactions)) \cup {MissingTransaction},
          data \in UpdateTransactionBodies :
         LET req == [TupIdle EXCEPT !.id = id, !.body = data]
         IN  IF id = MissingTransaction
               THEN tup' = [tup EXCEPT ![t] =
                        [req EXCEPT !.pc = "failed", !.error = "not_found"]]
             ELSE IF transactions[id].status # "pending"
               THEN tup' = [tup EXCEPT ![t] =
                        [req EXCEPT !.pc = "failed", !.error = "bad_request",
                                    !.found = transactions[id]]]
             ELSE tup' = [tup EXCEPT ![t] =
                        [req EXCEPT !.pc = "save",
                                    !.found = transactions[id]]]
    /\ UNCHANGED <<products, movements, adj, orders, transactions,
                   notifications, cre, upd, initial, ups, pup, users, now,
                   ses, issued, spent, resp>>

\* line 113: transaction.save() stores the paths changed in memory
SaveTransaction(stored, found, mem) ==
    [f \in DOMAIN stored |-> IF mem[f] # found[f] THEN mem[f] ELSE stored[f]]

\* lines 112-115: Object.assign(transaction, req.body) and transaction.save()
UpdTransactionSave(t) ==
    /\ tup[t].pc = "save"
    /\ LET r == tup[t]
           mem == Assign(r.found, r.body)
       IN  transactions' = [transactions EXCEPT ![r.id] =
                               SaveTransaction(@, r.found, mem)]
    /\ tup' = [tup EXCEPT ![t].pc = "done"]
    /\ UNCHANGED <<products, movements, adj, orders, notifications, cre, upd,
                   initial, ups, pup, users, now, ses, issued, spent, resp>>

\* one stored order and the requests of the transaction controller
InitLedger ==
    /\ products = ReturnStock(UpdateProducts,
                              [k \in 1..Len(StoredItems) |->
                                 [StoredItems[k] EXCEPT !.quantity = -@]])
    /\ initial = products
    /\ orders \in StoredOrders
    /\ movements = <<>>
    /\ adj = <<>>
    /\ transactions = <<>>
    /\ notifications = <<>>
    /\ cre = <<>>
    /\ upd = 0
    /\ ups = <<>>
    /\ pup = <<>>
    /\ tup = [t \in TransactionReqs |-> TupIdle]
    /\ users = <<>>
    /\ now = 0
    /\ ses = <<>>
    /\ issued = {}
    /\ spent = {}
    /\ resp = NoResponse

NextLedger ==
    \/ \E data \in CreateTransactionBodies : CreateTransaction(data)
    \/ \E t \in TransactionReqs : UpdTransactionFind(t)
    \/ \E t \in TransactionReqs : UpdTransactionSave(t)
    \/ \E status \in {"delivered", "cancelled"} :
         UpdateOrderStatus(StoredOrder, status, NoValue)

SpecLedger == InitLedger /\ [][NextLedger]_vars

\* C26: a Transaction whose status is completed is never modified:
\* updateTransaction on a transaction that is not pending fails and leaves
\* it unchanged, and no order operation edits an existing Transaction.
C26_CompletedTransactionImmutable ==
    [][ /\ \A k \in 1..Len(transactions) :
             transactions[k].status = "completed"
             => /\ k <= Len(transactions')
                /\ transactions'[k] = transactions[k]
        /\ \A t \in DOMAIN tup :
             ( /\ tup[t].pc = "idle" /\ tup'[t].pc # "idle"
               /\ tup'[t].id # MissingTransaction
               /\ transactions[tup'[t].id].status # "pending" )
             => /\ tup'[t].pc = "failed"
                /\ transactions' = transactions
        /\ upd' # upd
             => SubSeq(transactions', 1, Len(transactions)) = transactions
      ]_vars

---------------------------------------------------------------------------
(* The auth controller: register, login, refreshToken, logout.             *)

MaxTime == 2            \* the clock runs over 0..MaxTime seconds

Members == {Customer, "visitor"}    \* accounts that register themselves
RefreshReqs == {"r1", "r2"}         \* refreshToken request slots

\* utils/jwt lines 236-240: jwt.sign(payload, secret, {expiresIn}); the
\* token is a function of the payload and of the second it is signed in
generateRefreshToken(userId, role, at) ==
    [ userId |-> userId, role |-> role, iat |-> at ]

\* a user document without refreshToken
NoToken == [ userId |-> NoValue, role |-> NoValue, iat |-> 0 ]

\* models/User.ts lines 64-90: role, isActive, refreshToken
UserDoc(role, token) ==
    [ role |-> role, isActive |-> TRUE, refreshToken |-> token ]

SesIdle ==
    [ pc |-> "idle", token |-> NoToken, newRefreshToken |-> NoToken,
      error |-> NoValue ]

\* lines 20-81: register: User.create with role 'user', the tokens, save
Register(u) ==
    /\ u \notin DOMAIN users
    /\ LET refreshToken == generateRefreshToken(u, "user", now)
       IN  /\ users' = (u :> UserDoc("user", refreshToken)) @@ users
           /\ issued' = issued \cup {refreshToken}
    /\ UNCHANGED <<products, movements, adj, orders, transactions,
                   notifications, cre, upd, initial, ups, pup, tup, now, ses,
                   spent, resp>>

\* lines 87-146: login: the tokens, user.refreshToken = refreshToken, save
Login(u) ==
    /\ u \in DOMAIN users
    /\ users[u].isActive
    /\ LET refreshToken == generateRefreshToken(u, users[u].role, now)
       IN  /\ users' = [users EXCEPT ![u].refreshToken = refreshToken]
           /\ issued' = issued \cup {refreshToken}
    /\ UNCHANGED <<products, movements, adj, orders, transactions,
                   notifications, cre, upd, initial, ups, pup, tup, now, ses,
                   spent, resp>>

\* lines 161-167: is the presented token the one stored for its user
TokenAccepted(token) ==
    /\ token.userId \in DOMAIN users
    /\ users[token.userId].isActive
    /\ users[token.userId].refreshToken = token

\* lines 152-180: refreshToken: verify, User.findById, the comparison with
\* the stored token, the new tokens; a token that verifies is one that was
\* handed out
RefreshCheck(s) ==
    /\ ses[s].pc = "idle"
    /\ \E token \in issued :
         IF TokenAccepted(token)
           THEN ses' = [ses EXCEPT ![s] =
                   [SesIdle EXCEPT
                      !.pc = "save", !.token = token,
                      !.newRefreshToken =
                          generateRefreshToken(token.userId,
                                               users[token.userId].role,
                                               now)]]
           ELSE ses' = [ses EXCEPT ![s] =
                   [SesIdle EXCEPT !.pc = "failed", !.token = token,
                                   !.error = "unauthorized"]]
    /\ UNCHANGED <<products, movements, adj, orders, transactions,
                   notifications, cre, upd, initial, ups, pup, tup, users,
                   now, issued, spent, resp>>

\* lines 182-195: user.refreshToken = newRefreshToken, save, the response;
\* save stores the path when its value was changed in memory
RefreshSave(s) ==
    /\ ses[s].pc = "save"
    /\ LET r == ses[s]
           u == r.token.userId
       IN  /\ users' = IF r.newRefreshToken # r.token
                         THEN [users EXCEPT
                                 ![u].refreshToken = r.newRefreshToken]
                         ELSE users
           /\ issued' = issued \cup {r.newRefreshToken}
           /\ spent' = spent \cup {r.token}
    /\ ses' = [ses EXCEPT ![s].pc = "done"]
    /\ UNCHANGED <<products, movements, adj, orders, transactions,
                   notifications, cre, upd, initial, ups, pup, tup, now,
                   resp>>

\* lines 202-216: logout: $unset refreshToken
Logout(u) ==
    /\ u \in DOMAIN users
    /\ users' = [users EXCEPT ![u].refreshToken = NoToken]
    /\ spent' = spent \cup {token \in issued : token.userId = u}
    /\ UNCHANGED <<products, movements, adj, orders, transactions,
                   notifications, cre, upd, initial, ups, pup, tup, now, ses,
                   issued, resp>>

\* a second passes
Tick ==
    /\ now < MaxTime
    /\ now' = now + 1
    /\ UNCHANGED <<products, movements, adj, orders, transactions,
                   notifications, cre, upd, initial, ups, pup, tup, users,
                   ses, issued, spent, resp>>

InitAuth ==
    /\ products = [pid \in {"p1"} |-> ProductDoc(pid, 0, 0, "active", 0)]
    /\ initial = products
    /\ movements = <<>>
    /\ adj = <<>>
    /\ orders = <<>>
    /\ transactions = <<>>
    /\ notifications = <<>>
    /\ cre = <<>>
    /\ upd = 0
    /\ ups = <<>>
    /\ pup = <<>>
    /\ tup = <<>>
    /\ users = <<>>
    /\ now = 0
    /\ ses = [s \in RefreshReqs |-> SesIdle]
    /\ issued = {}
    /\ spent = {}
    /\ resp = NoResponse

NextAuth ==
    \/ \E u \in Members : Register(u)
    \/ \E u \in Members : Login(u)
    \/ \E u \in Members : Logout(u)
    \/ \E s \in RefreshReqs : RefreshCheck(s)
    \/ \E s \in RefreshReqs : RefreshSave(s)
    \/ Tick

SpecAuth == InitAuth /\ [][NextAuth]_vars

\* C30: refresh tokens are single-use and revocable: the refresh operation
\* accepts for a user only the token stored for that user, and a token that
\* has been used for a refresh, or that was handed out before a logout of
\* its user, is rejected as invalid.
C30_RefreshTokenSingleUse ==
    [][ \A s \in DOMAIN ses :
          ( ses[s].pc = "idle" /\ ses'[s].pc = "save" )
          => /\ ses'[s].token = users[ses'[s].token.userId].refreshToken
             /\ ses'[s].token \notin spent ]_vars

---------------------------------------------------------------------------
(* Reading orders: getOrders and getOrderById.                             *)

\* middlewares/auth lines 17-57: req.user of an authenticated caller
ReqUser(u) == [ userId |-> u, role |-> users[u].role ]

\* the orders of a response, each with its id and its customer
Returned(ids) ==
    { [id |-> o, customerId |-> orders[o].customerId] : o \in ids }

\* lines 29-36: the query of getOrders
OrderQuery(user, customerId) ==
    IF user.role = "customer" THEN { o \in DOMAIN orders :
                                       orders[o].customerId = user.userId }
    ELSE IF customerId # NoValue THEN { o \in DOMAIN orders :
                                          orders[o].customerId = customerId }
    ELSE DOMAIN orders

\* lines 17-68: getOrders
GetOrders(u, customerId) ==
    /\ u \in DOMAIN users
    /\ resp' = [ caller |-> u, status |-> "ok",
                 orders |-> Returned(OrderQuery(ReqUser(u), customerId)) ]
    /\ UNCHANGED <<products, movements, adj, orders, transactions,
                   notifications, cre, upd, initial, ups, pup, tup, users,
                   now, ses, issued, spent>>

\* lines 74-95: getOrderById
GetOrderById(u, o) ==
    /\ u \in DOMAIN users
    /\ resp' = IF o \notin DOMAIN orders
                 THEN [ caller |-> u, status |-> "not_found", orders |-> {} ]
               ELSE IF /\ ReqUser(u).role = "customer"
                       /\ orders[o].customerId # ReqUser(u).userId
                 THEN [ caller |-> u, status |-> "forbidden", orders |-> {} ]
               ELSE [ caller |-> u, status |-> "ok",
                      orders |-> Returned({o}) ]
    /\ UNCHANGED <<products, movements, adj, orders, transactions,
                   notifications, cre, upd, initial, ups, pup, tup, users,
                   now, ses, issued, spent>>

\* the staff account, one createOrder request of the customer, and the
\* accounts that register themselves
InitAccess ==
    /\ products \in OrderProducts
    /\ initial = products
    /\ movements = <<>>
    /\ adj = <<>>
    /\ orders = <<>>
    /\ transactions = <<>>
    /\ notifications = <<>>
    /\ cre = [c \in OrderReqs |-> CreIdle]
    /\ upd = 0
    /\ ups = <<>>
    /\ pup = <<>>
    /\ tup = <<>>
    /\ users = (Actor :> UserDoc("staff", NoToken))
    /\ now = 0
    /\ ses = <<>>
    /\ issued = {}
    /\ spent = {}
    /\ resp = NoResponse

NextAccess ==
    \/ \E u \in Members : Register(u)
    \/ \E c \in OrderReqs :
         \/ CreateOrderStart(c) /\ Customer \in DOMAIN users
         \/ CreateOrderCheck(c)
         \/ CreateOrderPersist(c)
         \/ CreateOrderReduce(c)
         \/ CreateOrderNotify(c)
    \/ \E u \in Members \cup {Actor}, customerId \in Members \cup {NoValue} :
         GetOrders(u, customerId)
    \/ \E u \in Members \cup {Actor}, o \in OrderReqs : GetOrderById(u, o)

SpecAccess == InitAccess /\ [][NextAccess]_vars

\* C29: a user who is neither admin nor staff can read only their own
\* orders: getOrders returns only orders whose customerId is the caller,
\* and getOrderById denies access to an order of another customer.
C29_UsersReadOwnOrdersOnly ==
    ( /\ resp.caller \in DOMAIN users
      /\ users[resp.caller].role \notin {"admin", "staff"} )
    => \A order \in resp.orders : order.customerId = resp.caller

===========================================================================
